---------------------------- MODULE Spec2Model ----------------------------
(***************************************************************************)
(* reStream: the streaming transform pipeline.                             *)
(*   - the Delta-XOR codec (src/src/xor.rs): XorStream / UnxorStream       *)
(*   - the Frame Source (ReStreamer), its Frame-Rate Throttle              *)
(*     (FrameCapper) and the Monochrome Transcoder (MonowTranscoder) of    *)
(*     src/src/main.rs                                                     *)
(* Times are in microseconds, bytes are 0..255.                            *)
(***************************************************************************)
EXTENDS Integers, Sequences, FiniteSets, TLC

VARIABLES
    \* ---- Delta-XOR codec (xor.rs) ----
    block_size,        \* the block size both streams were constructed with
    plain,             \* every byte the encoder's inner source has delivered
    last_cache,        \* XorStream.last_cache (1-based here)
    last_cache_index,  \* XorStream.last_cache_index (0-based, as in the code)
    wire,              \* every byte XorStream::read has returned
    decPos,            \* how many bytes of wire UnxorStream's inner has delivered
    diff_cache,        \* UnxorStream.diff_cache, front first
    decoded,           \* every byte UnxorStream::read has returned
    uniform,           \* 0: no read yet; c > 0: every read so far had a buffer
                       \* of c bytes; -1: reads of different buffer sizes
    cev                \* the last codec call: [op, short, err]; short: the inner
                       \* source delivered fewer bytes than buf.len(); err: Err returned

codecVars == <<block_size, plain, last_cache, last_cache_index, wire, decPos,
               diff_cache, decoded, uniform, cev>>

VARIABLES
    \* ---- Frame-Rate Throttle (main.rs, FrameCapper) ----
    now,               \* the system clock, in microseconds
    fc,                \* Option<FrameCapper>: [some, last_frame, frame_duration,
                       \* missed_frames]
    fev                \* the last sync_framerate call: [slept, reset, ok]

capperVars == <<now, fc, fev>>

VARIABLES
    \* ---- Frame Source and Monochrome Transcoder (main.rs) ----
    cfg,               \* what the pipeline was built with: [width, height,
                       \* bytes_per_pixel, start, file_len, monow, fps]
    fb,                \* the bytes of the capture region, file offsets
                       \* start .. start + size - 1
    rs,                \* ReStreamer: [pos, start, cursor, size]; pos is the
                       \* position of its file handle
    mt,                \* MonowTranscoder: [native_size, bytes_per_pixel,
                       \* monow_data, position, fb_data]; position is the
                       \* Cursor's, fb_data the frame last read by a refill
    built,             \* the pipeline has been constructed
    failed,            \* some call has returned an error
    pev                \* the last call made on the pipeline

pipeVars == <<cfg, fb, rs, mt, built, failed, pev>>

VARIABLES
    \* ---- the unxor utility (bin/unxor.rs, main) ----
    ux                 \* [pc, bytes, out, eof]: pc is where main is ("read",
                       \* "write", or "exit" once it has returned), bytes the
                       \* contents of buf[0..bytes], out every byte stdout has
                       \* accepted, eof whether stdin has reported its end

vars == <<codecVars, capperVars, pipeVars, ux>>

-----------------------------------------------------------------------------
(* Bounds of the model *)

\* longest plaintext stream fed to the encoder
MaxLen == 6
\* the block sizes the codec is built with
BlockSizes == {1, 2, 3}
\* the buffer lengths handed to one read call of the codec
BufLens == {1, 2, 3}

\* the last instant the system clock can represent (SystemTime's range)
SysTimeMax == 2000000

\* the values the plaintext bytes are drawn from
PlainBytes == {0, 165}

-----------------------------------------------------------------------------
(* u8 arithmetic *)

RECURSIVE XorBits(_, _, _)
XorBits(a, b, n) ==
    IF n = 0 THEN 0
    ELSE (((a % 2) + (b % 2)) % 2) + 2 * XorBits(a \div 2, b \div 2, n - 1)

\* the table of u8 ^ u8
XorTable == [a \in 0..255 |-> [b \in 0..255 |-> XorBits(a, b, 8)]]

\* u8 ^ u8
Xor(a, b) == XorTable[a][b]

Zeros(n) == [i \in 1..n |-> 0]

Min(a, b) == IF a < b THEN a ELSE b
Max(a, b) == IF a > b THEN a ELSE b

\* all sequences over S of length exactly n
SeqsOfLen(S, n) == [1..n -> S]

-----------------------------------------------------------------------------
(* The parts of the state a specification does not use *)

\* no codec
CodecIdle ==
    /\ block_size = 0 /\ plain = <<>> /\ last_cache = <<>> /\ last_cache_index = 0
    /\ wire = <<>> /\ decPos = 0 /\ diff_cache = <<>> /\ decoded = <<>>
    /\ uniform = 0
    /\ cev = [op |-> "none", short |-> FALSE, err |-> FALSE]

\* no pipeline
NoStreamer == [pos |-> 0, start |-> 0, cursor |-> 0, size |-> 0]
NoTranscoder == [native_size |-> 0, bytes_per_pixel |-> 0, monow_data |-> <<>>,
                 position |-> 0, fb_data |-> <<>>]
NoCall == [op |-> "none", req |-> 0, ret |-> 0, err |-> FALSE, cur |-> 0,
           want |-> 0, syncs |-> 0, wraps |-> 0, ends |-> 0, reads |-> 0,
           refills |-> 0, eof |-> FALSE, syncFail |-> FALSE, served |-> <<>>,
           frame |-> <<>>]
NoConfig == [width |-> 0, height |-> 0, bytes_per_pixel |-> 0, start |-> 0,
             file_len |-> 0, monow |-> FALSE, fps |-> 0]

\* no unxor utility
UnxorIdle ==
    ux = [pc |-> "none", bytes |-> <<>>, out |-> <<>>, eof |-> FALSE]

PipeIdle ==
    /\ cfg = NoConfig /\ fb = <<>> /\ rs = NoStreamer /\ mt = NoTranscoder
    /\ built = FALSE /\ failed = FALSE /\ pev = NoCall

-----------------------------------------------------------------------------
(* FrameCapper (main.rs 152-191) *)

\* Duration::from_secs(1), in microseconds
OneSecond == 1000000

\* the --fps-cap values
FpsCaps == {4, 10}

\* how long the work between two clock readings may take
FrameTimes == {110000}

\* how much later than asked thread::sleep may return
Oversleeps == {0, 30000}

NoCapper == [some |-> FALSE, last_frame |-> 0, frame_duration |-> 0,
             missed_frames |-> 0]

NoSync == [slept |-> FALSE, reset |-> FALSE, ok |-> TRUE]

\* FrameCapper::new(fps_cap) at time t
FrameCapper_new(fps_cap, t) ==
    [some |-> TRUE, last_frame |-> t,
     frame_duration |-> 1000000 \div fps_cap,
     missed_frames |-> 0]

\* sync_framerate without the decrement of missed_frames after a sleep
sync_framerate_NoDecrement(c, t, over) ==
    LET elapsed == t - c.last_frame
        sleeps  == c.frame_duration > elapsed
        t1      == (IF sleeps THEN c.last_frame + c.frame_duration ELSE t) + over
        missed  == IF sleeps THEN c.missed_frames ELSE c.missed_frames + 1
        reset   == missed * c.frame_duration > OneSecond
        next    == c.last_frame + c.frame_duration
        ok      == reset \/ next <= SysTimeMax
    IN  [fc  |-> [c EXCEPT !.missed_frames = missed,
                           !.last_frame = IF reset THEN t1
                                          ELSE IF ok THEN next ELSE @],
         now |-> t1,
         ev  |-> [slept |-> sleeps, reset |-> reset, ok |-> ok]]

\* sync_framerate with the anchor set to the current time by every call
sync_framerate_AnchorNow(c, t, over) ==
    LET elapsed == t - c.last_frame
        sleeps  == c.frame_duration > elapsed
        t1      == (IF sleeps THEN c.last_frame + c.frame_duration ELSE t) + over
        missed  == IF sleeps THEN Max(c.missed_frames - 1, 0)
                             ELSE c.missed_frames + 1
        reset   == missed * c.frame_duration > OneSecond
    IN  [fc  |-> [c EXCEPT !.missed_frames = missed, !.last_frame = t1],
         now |-> t1,
         ev  |-> [slept |-> sleeps, reset |-> reset, ok |-> TRUE]]

\* FrameCapper::sync_framerate entered at time t; the call returns at time
\* now. over: the time the call takes beyond the sleep it asked for.
sync_framerate(c, t, over) ==
    LET elapsed == t - c.last_frame
        sleeps  == c.frame_duration > elapsed
        \* thread::sleep(frame_duration - elapsed) returns at last_frame +
        \* frame_duration or later
        t1      == (IF sleeps THEN c.last_frame + c.frame_duration ELSE t) + over
        missed  == IF sleeps THEN Max(c.missed_frames - 1, 0)
                             ELSE c.missed_frames + 1
        reset   == missed * c.frame_duration > OneSecond
        \* checked_add: None beyond the range of SystemTime
        next    == c.last_frame + c.frame_duration
        ok      == reset \/ next <= SysTimeMax
    IN  [fc  |-> [c EXCEPT !.missed_frames = missed,
                           !.last_frame = IF reset THEN t1
                                          ELSE IF ok THEN next ELSE @],
         now |-> t1,
         ev  |-> [slept |-> sleeps, reset |-> reset, ok |-> ok]]

\* the clock can be read (elapsed() on entry, SystemTime::now() when the
\* anchor is reset) only while it is within the range of SystemTime
SyncReadable(c, t, over) ==
    /\ t <= SysTimeMax
    /\ t >= c.last_frame
    /\ sync_framerate(c, t, over).ev.reset => sync_framerate(c, t, over).now <= SysTimeMax

CapperIdle ==
    /\ now = 0 /\ fc = NoCapper /\ fev = NoSync

CapperInit ==
    /\ now = 0
    /\ \E fps \in FpsCaps : fc = FrameCapper_new(fps, now)
    /\ fev = NoSync

\* time passes
Elapse(d) ==
    /\ fc.some
    /\ now + d <= SysTimeMax
    /\ now' = now + d
    /\ UNCHANGED <<fc, fev>>

\* one call of sync_framerate
Sync(over) ==
    /\ fc.some
    /\ SyncReadable(fc, now, over)
    /\ LET r == sync_framerate(fc, now, over)
       IN  /\ fc' = r.fc
           /\ now' = r.now
           /\ fev' = r.ev

CapperElapse ==
    (\E d \in FrameTimes : Elapse(d)) /\ UNCHANGED <<codecVars, pipeVars, ux>>

CapperSync ==
    (\E over \in Oversleeps : Sync(over)) /\ UNCHANGED <<codecVars, pipeVars, ux>>

CapperNext == CapperElapse \/ CapperSync

InitCapper == CapperInit /\ CodecIdle /\ PipeIdle /\ UnxorIdle

SpecCapper == InitCapper /\ [][CapperNext]_vars

\* the smallest n with n * frame_duration > 1 second
MissedBound(c) == (OneSecond \div c.frame_duration) + 1

\* C7 as stated: missed_frames never exceeds the count the 1-second window
\* allows
C7_MissedFramesBounded ==
    fc.some => fc.missed_frames <= MissedBound(fc)

\* C12: the anchor update. In every sync_framerate call, with missed_frames
\* as this call leaves it: if missed_frames * frame_duration exceeds one
\* second the anchor is the time the call ends at; otherwise the anchor is
\* its previous value plus frame_duration, however long the frame took and
\* however long the call slept (when that sum is beyond the clock's range
\* the call fails and leaves the anchor alone: C8's case).
C12_AnchorUpdate ==
    [][ \A over \in Oversleeps :
          Sync(over) =>
              /\ fc'.frame_duration = fc.frame_duration
              /\ IF fc'.missed_frames * fc.frame_duration > OneSecond
                 THEN fc'.last_frame = now'
                 ELSE IF fc.last_frame + fc.frame_duration <= SysTimeMax
                      THEN fc'.last_frame = fc.last_frame + fc.frame_duration
                      ELSE fc'.last_frame = fc.last_frame /\ ~fev'.ok
      ]_vars

\* C12 as stated: at the end of every sync_framerate call the anchor is the
\* current time if missed_frames * frame_duration exceeds one second, and
\* otherwise exactly its previous value plus frame_duration.
C12_AnchorResetOrAdvanced ==
    [][ \A over \in Oversleeps :
          Sync(over) =>
              IF fc'.missed_frames * fc.frame_duration > OneSecond
              THEN fc'.last_frame = now'
              ELSE fc'.last_frame = fc.last_frame + fc.frame_duration
      ]_vars

C12_Witness ==
    /\ fc.some /\ fev.slept /\ ~fev.reset /\ fev.ok
    /\ fc.missed_frames > 0
    /\ now = fc.last_frame + 30000

-----------------------------------------------------------------------------
(* The capture file and ReStreamer (main.rs 193-251) *)

\* how many bytes the capture file hands over in one read call at most
Delivers == {3, 1000}

\* what a call meets: k bytes at most per file read, the sleep returning
\* over late, the file's read failing (ferr), its seek failing (serr)
Envs == [k : Delivers, over : Oversleeps, ferr : BOOLEAN, serr : BOOLEAN]
GoodEnvs == {e \in Envs : ~e.ferr /\ ~e.serr}

\* width * height * bytes_per_pixel
FrameSize(c) == c.width * c.height * c.bytes_per_pixel

\* the byte of the capture file at offset o
FileByte(o) ==
    IF o >= cfg.start /\ o < cfg.start + Len(fb) THEN fb[o - cfg.start + 1] ELSE 0

\* File::read(&mut buf[0..want]) at offset pos: the bytes handed over
FileRead(pos, want, k) ==
    LET got == Min(Min(want, k), Max(cfg.file_len - pos, 0))
    IN  [i \in 1..got |-> FileByte(pos + i - 1)]

\* The world a call runs in: the streamer, its throttle and the clock, with
\* what the call has done so far (syncs: sync_framerate calls; wraps: times
\* the handle was put back to start; ends: times a read left cursor = size;
\* reads: ReStreamer::read calls; want: the slice length of the last one;
\* eof: the file returned 0 bytes for a non-empty slice; syncFail:
\* sync_framerate returned Err; inRange: every clock reading was within
\* SystemTime's range)
World ==
    [rs |-> rs, fc |-> fc, now |-> now, sev |-> fev, syncs |-> 0, wraps |-> 0,
     ends |-> 0, reads |-> 0, eof |-> FALSE, syncFail |-> FALSE,
     inRange |-> TRUE, want |-> 0]

\* next_frame without the seek back to start
next_frame_NoSeek(w, e) ==
    IF e.serr THEN [w |-> w, ok |-> FALSE]
    ELSE LET w1 == [w EXCEPT !.rs.cursor = 0, !.wraps = @ + 1]
         IN  IF w.fc.some
             THEN LET r == sync_framerate(w.fc, w.now, e.over)
                  IN  [w  |-> [w1 EXCEPT !.fc = r.fc, !.now = r.now, !.sev = r.ev,
                                         !.syncs = @ + 1,
                                         !.syncFail = @ \/ ~r.ev.ok,
                                         !.inRange = @ /\ SyncReadable(w.fc, w.now, e.over)],
                       ok |-> TRUE]
             ELSE [w |-> w1, ok |-> TRUE]

\* next_frame without self.cursor = 0
next_frame_KeepsCursor(w, e) ==
    IF e.serr THEN [w |-> w, ok |-> FALSE]
    ELSE LET w1 == [w EXCEPT !.rs.pos = w.rs.start, !.wraps = @ + 1]
         IN  IF w.fc.some
             THEN LET r == sync_framerate(w.fc, w.now, e.over)
                  IN  [w  |-> [w1 EXCEPT !.fc = r.fc, !.now = r.now, !.sev = r.ev,
                                         !.syncs = @ + 1,
                                         !.syncFail = @ \/ ~r.ev.ok,
                                         !.inRange = @ /\ SyncReadable(w.fc, w.now, e.over)],
                       ok |-> TRUE]
             ELSE [w |-> w1, ok |-> TRUE]

\* ReStreamer::next_frame
next_frame(w, e) ==
    IF e.serr THEN [w |-> w, ok |-> FALSE]
    ELSE LET w1 == [w EXCEPT !.rs.pos = w.rs.start, !.rs.cursor = 0,
                             !.wraps = @ + 1]
         IN  IF w.fc.some
             THEN LET r == sync_framerate(w.fc, w.now, e.over)
                  IN  \* framecapper.sync_framerate().ok(): the result is dropped
                      [w  |-> [w1 EXCEPT !.fc = r.fc, !.now = r.now, !.sev = r.ev,
                                         !.syncs = @ + 1,
                                         !.syncFail = @ \/ ~r.ev.ok,
                                         !.inRange = @ /\ SyncReadable(w.fc, w.now, e.over)],
                       ok |-> TRUE]
             ELSE [w |-> w1, ok |-> TRUE]

\* the length of the slice ReStreamer::read hands to File::read, unclipped
Clip_None(cursor, requested, size) == requested

\* the length of the slice ReStreamer::read hands to File::read
Clip(cursor, requested, size) ==
    IF cursor + requested < size THEN requested ELSE size - cursor

\* ReStreamer::read with next_frame called one byte early
ReStreamer_read_EarlyFrame(w, n, e) ==
    LET want == Clip(w.rs.cursor, n, w.rs.size)
        data == FileRead(w.rs.pos, want, e.k)
        w1   == [w EXCEPT !.rs.pos = @ + Len(data), !.rs.cursor = @ + Len(data),
                          !.reads = @ + 1, !.want = want,
                          !.eof = @ \/ (want > 0 /\ Len(data) = 0)]
    IN  IF e.ferr THEN [w |-> w, ok |-> FALSE, data |-> <<>>]
        ELSE IF w1.rs.cursor >= w1.rs.size - 1
             THEN LET nf == next_frame([w1 EXCEPT !.ends = @ + 1], e)
                  IN  [w |-> nf.w, ok |-> nf.ok,
                       data |-> IF nf.ok THEN data ELSE <<>>]
             ELSE [w |-> w1, ok |-> TRUE, data |-> data]

\* ReStreamer::read(buf) with buf.len() = n
ReStreamer_read(w, n, e) ==
    LET want == Clip(w.rs.cursor, n, w.rs.size)
        data == FileRead(w.rs.pos, want, e.k)
        w1   == [w EXCEPT !.rs.pos = @ + Len(data), !.rs.cursor = @ + Len(data),
                          !.reads = @ + 1, !.want = want,
                          !.eof = @ \/ (want > 0 /\ Len(data) = 0)]
    IN  IF e.ferr THEN [w |-> w, ok |-> FALSE, data |-> <<>>]
        ELSE IF w1.rs.cursor = w1.rs.size
             THEN LET nf == next_frame([w1 EXCEPT !.ends = @ + 1], e)
                  IN  [w |-> nf.w, ok |-> nf.ok,
                       data |-> IF nf.ok THEN data ELSE <<>>]
             ELSE [w |-> w1, ok |-> TRUE, data |-> data]

\* ReStreamer::init at time t: File::open, FrameCapper::new, next_frame
ReStreamer_init(c, t, e) ==
    LET w0 == [rs |-> [pos |-> 0, start |-> c.start, cursor |-> 0,
                       size |-> FrameSize(c)],
               fc |-> IF c.fps > 0 THEN FrameCapper_new(c.fps, t) ELSE NoCapper,
               now |-> t, sev |-> NoSync, syncs |-> 0, wraps |-> 0, ends |-> 0,
               reads |-> 0, eof |-> FALSE, syncFail |-> FALSE, inRange |-> TRUE,
               want |-> 0]
    IN  next_frame(w0, e)

\* Read::read_exact on a ReStreamer: read until need bytes are there; a read
\* of 0 bytes is UnexpectedEof
RECURSIVE read_exact(_, _, _, _)
read_exact(w, need, e, acc) ==
    IF need = 0 THEN [w |-> w, ok |-> TRUE, data |-> acc]
    ELSE LET after(r) ==
                 IF ~r.ok \/ Len(r.data) = 0
                 THEN [w |-> r.w, ok |-> FALSE, data |-> acc]
                 ELSE read_exact(r.w, need - Len(r.data), e, acc \o r.data)
         IN  CHOOSE x \in {after(r) : r \in {ReStreamer_read(w, need, e)}} : TRUE

-----------------------------------------------------------------------------
(* MonowTranscoder (main.rs 253-405) *)

\* (pix as u8) << sh
Shl(pix, sh) == IF pix THEN 2 ^ sh ELSE 0

\* bit sh of byte b
Bit(b, sh) == (b \div (2 ^ sh)) % 2

\* the byte refill_bw_data_2bytes_per_pixel writes for the 16 bytes of fb_data
\* from index i (0-based)
PackByte2(fb_data, i) ==
    LET pix(k) == fb_data[i + 2 * (k - 1) + 1] = 0 /\ fb_data[i + 2 * (k - 1) + 2] = 0
    IN  Shl(pix(1), 7) + Shl(pix(2), 6) + Shl(pix(3), 5) + Shl(pix(4), 4)
        + Shl(pix(5), 3) + Shl(pix(6), 2) + Shl(pix(7), 1) + Shl(pix(8), 0)

\* PackByte1 with the first pixel in the least-significant bit
PackByte1_LsbFirst(fb_data, i) ==
    LET pixels(k) == fb_data[i + k + 1] = 0
    IN  Shl(pixels(0), 0) + Shl(pixels(1), 1) + Shl(pixels(2), 2)
        + Shl(pixels(3), 3) + Shl(pixels(4), 4) + Shl(pixels(5), 5)
        + Shl(pixels(6), 6) + Shl(pixels(7), 7)

\* the byte refill_bw_data_1byte_per_pixel writes for the 8 bytes of fb_data
\* from index i (0-based)
PackByte1(fb_data, i) ==
    LET pixels(k) == fb_data[i + k + 1] = 0
    IN  Shl(pixels(0), 7) + Shl(pixels(1), 6) + Shl(pixels(2), 5)
        + Shl(pixels(3), 4) + Shl(pixels(4), 3) + Shl(pixels(5), 2)
        + Shl(pixels(6), 1) + Shl(pixels(7), 0)

\* the loop of refill_bw_data_2bytes_per_pixel: i from 0 in steps of 16 while
\* i < native_size, one byte of monow_data_vec written per step
RECURSIVE PackLoop2(_, _, _, _)
PackLoop2(fb_data, native_size, i, vec) ==
    IF i < native_size
    THEN PackLoop2(fb_data, native_size, i + 16,
                   [vec EXCEPT ![(i \div 16) + 1] = PackByte2(fb_data, i)])
    ELSE vec

\* the loop of refill_bw_data_1byte_per_pixel: steps of 8
RECURSIVE PackLoop1(_, _, _, _)
PackLoop1(fb_data, native_size, i, vec) ==
    IF i < native_size
    THEN PackLoop1(fb_data, native_size, i + 8,
                   [vec EXCEPT ![(i \div 8) + 1] = PackByte1(fb_data, i)])
    ELSE vec

\* MonowTranscoder::refill_bw_data: one read_exact of native_size bytes, then
\* the repacking into the buffer, whose cursor starts again at 0
refill_bw_data(w, m, e) ==
    IF m.bytes_per_pixel \notin {1, 2} THEN [w |-> w, mt |-> m, ok |-> FALSE]
    ELSE LET after(r) ==
                 IF ~r.ok THEN [w |-> r.w, mt |-> m, ok |-> FALSE]
                 ELSE [w  |-> r.w,
                       mt |-> [m EXCEPT
                           !.monow_data =
                               IF m.bytes_per_pixel = 1
                               THEN PackLoop1(r.data, m.native_size, 0, m.monow_data)
                               ELSE PackLoop2(r.data, m.native_size, 0, m.monow_data),
                           !.position = 0,
                           !.fb_data = r.data],
                       ok |-> TRUE]
         IN  CHOOSE x \in {after(r) : r \in {read_exact(w, m.native_size, e, <<>>)}} : TRUE

\* MonowTranscoder::new with a native frame 8 pixels shorter than the
\* ReStreamer's
MonowTranscoder_new_ShortFrame(c, w, e) ==
    refill_bw_data(w,
                   [native_size |-> (c.width * c.height - 8) * c.bytes_per_pixel,
                    bytes_per_pixel |-> c.bytes_per_pixel,
                    monow_data |-> Zeros((c.width * c.height) \div 8),
                    position |-> 0, fb_data |-> <<>>],
                   e)

\* MonowTranscoder::new
MonowTranscoder_new(c, w, e) ==
    refill_bw_data(w,
                   [native_size |-> c.width * c.height * c.bytes_per_pixel,
                    bytes_per_pixel |-> c.bytes_per_pixel,
                    monow_data |-> Zeros((c.width * c.height) \div 8),
                    position |-> 0, fb_data |-> <<>>],
                   e)

\* MonowTranscoder::read refilling in every call, bytes left or not
MonowTranscoder_read_EagerRefill(w, m, n, e) ==
    LET bytes_read == Min(n, Len(m.monow_data) - m.position)
        data == SubSeq(m.monow_data, m.position + 1, m.position + bytes_read)
        m1   == [m EXCEPT !.position = @ + bytes_read]
        after(r) == [w |-> r.w, mt |-> r.mt, ok |-> r.ok,
                     data |-> IF r.ok THEN data ELSE <<>>, refills |-> 1]
    IN  CHOOSE x \in {after(r) : r \in {refill_bw_data(w, m1, e)}} : TRUE

\* MonowTranscoder::read refilling at the start of the call that finds the
\* buffer drained, not at the end of the call that drains it
MonowTranscoder_read_LazyRefill(w, m, n, e) ==
    LET serve(w1, m0, ok, refills) ==
            LET bytes_read == Min(n, Len(m0.monow_data) - m0.position)
            IN  [w |-> w1, mt |-> [m0 EXCEPT !.position = @ + bytes_read],
                 ok |-> ok,
                 data |-> IF ok THEN SubSeq(m0.monow_data, m0.position + 1,
                                            m0.position + bytes_read)
                          ELSE <<>>,
                 refills |-> refills]
    IN  IF m.position = Len(m.monow_data)
        THEN CHOOSE x \in {serve(r.w, r.mt, r.ok, 1) :
                              r \in {refill_bw_data(w, m, e)}} : TRUE
        ELSE serve(w, m, TRUE, 0)

\* MonowTranscoder::read(buf) with buf.len() = n: [w, mt, ok, data, refills]
MonowTranscoder_read(w, m, n, e) ==
    LET bytes_read == Min(n, Len(m.monow_data) - m.position)
        data == SubSeq(m.monow_data, m.position + 1, m.position + bytes_read)
        m1   == [m EXCEPT !.position = @ + bytes_read]
        after(r) == [w |-> r.w, mt |-> r.mt, ok |-> r.ok,
                     data |-> IF r.ok THEN data ELSE <<>>, refills |-> 1]
    IN  IF bytes_read < n
        THEN CHOOSE x \in {after(r) : r \in {refill_bw_data(w, m1, e)}} : TRUE
        ELSE [w |-> w, mt |-> m1, ok |-> TRUE, data |-> data, refills |-> 0]

-----------------------------------------------------------------------------
(* The pipeline as a state machine: the capture file, a ReStreamer on it and, *)
(* with --monow, a MonowTranscoder on the ReStreamer; the consumer reads the  *)
(* outermost stage.                                                           *)

\* how long before the end of the clock's range the pipeline is started
Horizon == 400000

\* the buffer lengths the consumer reads with
ReqLens == {1, 5, 20}

\* the pictures the display shows
ImageIds == {0, 1}

\* picture g in the capture region of a pipeline built with c: pixel p is
\* blank (all its bytes 0) unless p + g is a multiple of 3, and then one of
\* its bytes is not 0
Image(g, c) ==
    [i \in 1..FrameSize(c) |->
        LET p == (i - 1) \div c.bytes_per_pixel
            b == (i - 1) % c.bytes_per_pixel
        IN  IF (p + g) % 3 = 0 /\ b = ((p \div 3) + g) % c.bytes_per_pixel
            THEN ((p + g) % 200) + 1
            ELSE 0]

\* the pipelines built: fps = 0 is no --fps-cap; file_len below start + size
\* is a capture file that ends inside the region
PipeConfigs ==
    { [width |-> 10, height |-> 10, bytes_per_pixel |-> 1, start |-> 0,
       file_len |-> 100, monow |-> FALSE, fps |-> 0],
      [width |-> 4, height |-> 2, bytes_per_pixel |-> 1, start |-> 8,
       file_len |-> 20, monow |-> FALSE, fps |-> 10],
      [width |-> 4, height |-> 2, bytes_per_pixel |-> 1, start |-> 0,
       file_len |-> 6, monow |-> FALSE, fps |-> 4],
      [width |-> 8, height |-> 2, bytes_per_pixel |-> 2, start |-> 0,
       file_len |-> 32, monow |-> TRUE, fps |-> 10],
      [width |-> 4, height |-> 4, bytes_per_pixel |-> 1, start |-> 8,
       file_len |-> 30, monow |-> TRUE, fps |-> 0] }

\* main: ReStreamer::init and, with --monow, MonowTranscoder::new
Construct(c, t, e) ==
    LET after(r1) ==
            IF ~r1.ok \/ ~c.monow
            THEN [w |-> r1.w, mt |-> NoTranscoder, ok |-> r1.ok]
            ELSE MonowTranscoder_new(c, r1.w, e)
    IN  CHOOSE x \in {after(r1) : r1 \in {ReStreamer_init(c, t, e)}} : TRUE

\* what a call leaves behind (a MonowTranscoder::read also: frame, the native
\* frame its buffer held on entry, and served, the bytes returned so far out
\* of that buffer, this call's included)
CallEv(op, n, cur, w, ok, ret, refills) ==
    [op |-> op, req |-> n, ret |-> IF ok THEN ret ELSE 0, err |-> ~ok,
     cur |-> cur, want |-> w.want, syncs |-> w.syncs, wraps |-> w.wraps,
     ends |-> w.ends, reads |-> w.reads, refills |-> refills, eof |-> w.eof,
     syncFail |-> w.syncFail, served |-> <<>>, frame |-> <<>>]

Commit(w) ==
    /\ w.inRange
    /\ rs' = w.rs /\ fc' = w.fc /\ now' = w.now /\ fev' = w.sev

\* the state main leaves when both constructors have returned Ok
Built(c, t0) ==
    \E e \in GoodEnvs : \E r \in {Construct(c, t0, e)} :
            /\ r.ok /\ r.w.inRange
            /\ rs = r.w.rs /\ fc = r.w.fc /\ now = r.w.now /\ fev = r.w.sev
            /\ mt = r.mt
            /\ pev = CallEv("init", 0, 0, r.w, TRUE, 0,
                            IF c.monow THEN 1 ELSE 0)

PipeInit ==
    /\ cfg \in PipeConfigs
    /\ fb = Image(0, cfg)
    /\ built = TRUE
    /\ failed = FALSE
    /\ Built(cfg, SysTimeMax - Horizon)

\* the consumer reads the ReStreamer (no --monow)
StreamRead ==
    /\ built /\ ~cfg.monow
    /\ \E n \in ReqLens, e \in Envs : \E r \in {ReStreamer_read(World, n, e)} :
              /\ Commit(r.w)
              /\ pev' = CallEv("rs_read", n, rs.cursor, r.w, r.ok, Len(r.data), 0)
              /\ failed' = (failed \/ ~r.ok)
    /\ UNCHANGED <<cfg, fb, mt, built, codecVars, ux>>

\* the consumer reads the MonowTranscoder (--monow)
MonowRead ==
    /\ built /\ cfg.monow
    /\ \E n \in ReqLens, e \in Envs :
          \E r \in {MonowTranscoder_read(World, mt, n, e)} :
              /\ Commit(r.w)
              /\ mt' = r.mt
              /\ pev' = [CallEv("mt_read", n, mt.position, r.w, r.ok, Len(r.data),
                                r.refills)
                         EXCEPT !.served = (IF pev.refills = 1 THEN <<>>
                                            ELSE pev.served) \o r.data,
                                !.frame = mt.fb_data]
              /\ failed' = (failed \/ ~r.ok)
    /\ UNCHANGED <<cfg, fb, built, codecVars, ux>>

\* the display changes
FbDraw ==
    /\ built
    /\ \E g \in ImageIds : fb' = Image(g, cfg) /\ fb' # fb
    /\ UNCHANGED <<cfg, rs, mt, built, failed, pev, capperVars, codecVars, ux>>

\* time passes
PipeElapse ==
    /\ built
    /\ \E d \in FrameTimes : Elapse(d)
    /\ UNCHANGED <<pipeVars, codecVars, ux>>

Next == StreamRead \/ MonowRead \/ FbDraw \/ PipeElapse

Init == PipeInit /\ CodecIdle /\ UnxorIdle

Spec == Init /\ [][Next]_vars

-----------------------------------------------------------------------------
(* Packing one frame: the display is drawn, then main builds a --monow       *)
(* pipeline on it.                                                           *)

\* how many bytes of the frame are not 0 at most
MaxDirty == 4

\* the values drawn into the frame
DrawBytes == {1}

PackConfigs ==
    { [width |-> 8, height |-> d[1], bytes_per_pixel |-> d[2], start |-> 0,
       file_len |-> 8 * d[1] * d[2], monow |-> TRUE, fps |-> 0] :
      d \in {<<1, 1>>, <<1, 2>>, <<2, 1>>} }

Dirty(f) == Cardinality({i \in 1..Len(f) : f[i] # 0})

PackInit ==
    /\ cfg \in PackConfigs
    /\ fb = Zeros(FrameSize(cfg))
    /\ rs = NoStreamer /\ mt = NoTranscoder
    /\ built = FALSE /\ failed = FALSE /\ pev = NoCall

\* the display is drawn, in address order
Draw ==
    /\ ~built
    /\ Dirty(fb) < MaxDirty
    /\ \E i \in 1..Len(fb), v \in DrawBytes :
          /\ \A j \in i..Len(fb) : fb[j] = 0
          /\ fb' = [fb EXCEPT ![i] = v]
    /\ UNCHANGED <<cfg, rs, mt, built, failed, pev, capperVars, codecVars, ux>>

\* main builds the pipeline
Build ==
    /\ ~built
    /\ \E e \in GoodEnvs : \E r \in {Construct(cfg, now, e)} :
          /\ r.ok
          /\ Commit(r.w)
          /\ mt' = r.mt
          /\ pev' = CallEv("init", 0, 0, r.w, TRUE, 0, 1)
    /\ built' = TRUE
    /\ UNCHANGED <<cfg, fb, failed, codecVars, ux>>

PackNext == Draw \/ Build

InitPack == PackInit /\ CapperIdle /\ CodecIdle /\ UnxorIdle

SpecPack == InitPack /\ [][PackNext]_vars

-----------------------------------------------------------------------------
(* Properties of the Frame Source, the throttle and the transcoder *)

\* C3: frame-boundary clipping. A ReStreamer::read call hands the file a
\* slice of min(n, size - cursor) bytes and so returns at most that many: no
\* call returns bytes of two frames. With size 100, cursor 95 and n = 20 the
\* slice is 5 bytes.
C3_FrameClip ==
    (pev.op = "rs_read" /\ ~pev.err) =>
        /\ pev.want = Min(pev.req, rs.size - pev.cur)
        /\ pev.ret <= pev.want
        /\ pev.cur + pev.ret <= rs.size
        /\ (rs.size = 100 /\ pev.cur = 95 /\ pev.req = 20) => pev.want = 5
        /\ (pev.cur + pev.req = rs.size) => pev.want = pev.req

C3_Witness ==
    /\ pev.op = "rs_read" /\ ~pev.err
    /\ rs.size = 100 /\ pev.cur = 95 /\ pev.req = 20 /\ pev.ret = 5
    /\ pev.wraps = 1 /\ rs.cursor = 0

\* C4 as stated: with a frame-rate cap, sync_framerate is called once each
\* time cursor reaches size and at no other point, construction included.
C4_SyncOnlyAtBoundary ==
    fc.some => pev.syncs = pev.ends

\* C4 as amended: with a frame-rate cap, sync_framerate is called once by
\* ReStreamer::init, and after construction exactly once in each read call
\* that brings cursor to size and puts the handle back to start, and in no
\* other call.
C4_SyncAtInitAndBoundary ==
    (fc.some /\ built) =>
        /\ pev.op = "init" => pev.syncs = 1 + pev.ends
        /\ pev.op = "rs_read" =>
              /\ pev.syncs = (IF ~pev.err /\ pev.cur + pev.ret = rs.size
                              THEN 1 ELSE 0)
              /\ pev.syncs = pev.wraps
        /\ pev.op = "mt_read" => (pev.syncs = pev.wraps /\ pev.wraps <= pev.ends)

C4_Witness ==
    /\ fc.some /\ pev.op = "rs_read" /\ ~pev.err
    /\ pev.cur > 0 /\ pev.cur + pev.ret = rs.size
    /\ pev.syncs = 1 /\ fev.slept

\* C5: bit packing. After a refill, bit 7 - k of packed byte j is set exactly
\* when every byte of pixel 8j + k of the frame read is 0.
C5_BitPacking ==
    (built /\ cfg.monow) =>
        /\ Len(mt.monow_data) = (cfg.width * cfg.height) \div 8
        /\ Len(mt.fb_data) = mt.native_size
        /\ \A j \in 0..(Len(mt.monow_data) - 1), k \in 0..7 :
              (Bit(mt.monow_data[j + 1], 7 - k) = 1) <=>
                  (\A b \in 0..(mt.bytes_per_pixel - 1) :
                      mt.fb_data[(8 * j + k) * mt.bytes_per_pixel + b + 1] = 0)
        /\ \A j \in 1..Len(mt.monow_data) : mt.monow_data[j] \in 0..255
        /\ (mt.bytes_per_pixel = 2
              /\ mt.fb_data = <<0, 0, 0, 0, 1, 0, 0, 0, 0, 0, 0, 0, 0, 0, 0, 0>>)
             => mt.monow_data = <<223>>
        /\ (mt.bytes_per_pixel = 1 /\ mt.fb_data = <<0, 1, 0, 1, 0, 1, 0, 1>>)
             => mt.monow_data = <<170>>

C5_Witness ==
    /\ built /\ mt.bytes_per_pixel = 2
    /\ fb = <<0, 0, 0, 0, 1, 0, 0, 0, 0, 0, 0, 0, 0, 0, 0, 0>>
    /\ mt.fb_data = fb
    /\ mt.monow_data = <<223>>

\* C8 as stated: when sync_framerate fails to advance last_frame, the call
\* on the Frame Source returns an error.
C8_OverflowIsFatal ==
    pev.syncFail => pev.err

\* the buffer a refill makes of frame f
Packed(m, f) ==
    IF m.bytes_per_pixel = 1
    THEN PackLoop1(f, m.native_size, 0, Zeros(Len(m.monow_data)))
    ELSE PackLoop2(f, m.native_size, 0, Zeros(Len(m.monow_data)))

\* C9 as stated: a read asking for more than the packed buffer holds does
\* not refill during that call, and does not read the Frame Source.
C9_NoRefillInCall ==
    (pev.op = "mt_read" /\ pev.req > Len(mt.monow_data) - pev.cur) =>
        (pev.refills = 0 /\ pev.reads = 0)

\* C9 as amended: a read asking for more than the packed buffer holds returns
\* only the bytes that remain, and refills during that same call, before it
\* returns: it reads one frame from the Frame Source and replaces the whole
\* buffer, the cursor back at 0; a read asking for no more than remains does
\* not touch the Frame Source.
C9_RefillInSameCall ==
    pev.op = "mt_read" =>
        LET avail == Len(mt.monow_data) - pev.cur
        IN  /\ ~pev.err => pev.ret = Min(pev.req, avail)
            /\ pev.refills = (IF pev.req > avail THEN 1 ELSE 0)
            /\ pev.refills = 0 =>
                  (pev.reads = 0 /\ pev.syncs = 0 /\ mt.position = pev.cur + pev.ret)
            /\ (pev.refills = 1 /\ ~pev.err) =>
                  /\ pev.reads >= 1
                  /\ mt.position = 0
                  /\ mt.monow_data = Packed(mt, mt.fb_data)

C9_Witness ==
    /\ pev.op = "mt_read" /\ ~pev.err
    /\ pev.cur = 1 /\ pev.req = 5 /\ pev.ret = 1
    /\ pev.refills = 1 /\ pev.reads > 1
    /\ fc.some /\ pev.syncs = 1 /\ fev.slept
    /\ mt.position = 0

\* C10: with no earlier error, a ReStreamer::read call with a non-empty
\* buffer returns 0 only when the file returned 0 bytes for a non-empty
\* slice; never because cursor is at the frame boundary.
C10_ZeroOnlyAtEof ==
    (pev.op = "rs_read" /\ ~failed /\ pev.req > 0 /\ pev.ret = 0) =>
        (pev.eof /\ pev.want > 0 /\ pev.cur < rs.size)

C10_Witness ==
    /\ pev.op = "rs_read" /\ ~failed /\ pev.req > 0 /\ pev.ret = 0
    /\ pev.eof /\ rs.pos = cfg.file_len

\* C11: the cursor invariant of the Frame Source. cursor is always within
\* 0..size and the handle is at start + cursor; a read that brings cursor to
\* size leaves, when it returns Ok, the handle at start and cursor at 0; so
\* while no call has failed every read starts with cursor < size.
C11_CursorInvariant ==
    built =>
        /\ 0 <= rs.cursor /\ rs.cursor <= rs.size
        /\ rs.pos = rs.start + rs.cursor
        /\ ~failed => rs.cursor < rs.size
        /\ (pev.op = "rs_read" /\ ~failed) => pev.cur < rs.size
        /\ (pev.op = "rs_read" /\ ~pev.err /\ pev.cur + pev.ret = rs.size) =>
              (rs.cursor = 0 /\ rs.pos = rs.start /\ pev.wraps = 1)
        /\ (pev.op = "rs_read" /\ ~pev.err /\ pev.cur + pev.ret < rs.size) =>
              (rs.cursor = pev.cur + pev.ret /\ pev.wraps = 0)

\* C11 as stated: whenever a read brings cursor to size, cursor is back at 0
\* before the call returns: no call leaves cursor at size.
C11_CursorBelowSize ==
    built => rs.cursor < rs.size

C11_Witness ==
    /\ pev.op = "rs_read" /\ ~failed
    /\ rs.start = 8 /\ pev.cur > 0 /\ pev.ret > 0
    /\ pev.cur + pev.ret = rs.size
    /\ rs.cursor = 0 /\ rs.pos = 8

\* C13: refill only at exhaustion. While no call has failed, a
\* MonowTranscoder::read refills only when this call has served the last byte
\* of the buffer, and the bytes returned out of one buffer, call after call,
\* are the packing of the frame it was made of, from its first byte on, in
\* order: all of it once the refill comes.
C13_RefillAtExhaustion ==
    (pev.op = "mt_read" /\ ~failed) =>
        /\ pev.refills = 1 => pev.cur + pev.ret = Len(mt.monow_data)
        /\ pev.refills = 0 =>
              (mt.position = pev.cur + pev.ret /\ mt.fb_data = pev.frame)
        /\ pev.served = SubSeq(Packed(mt, pev.frame), 1, pev.cur + pev.ret)

C13_Witness ==
    /\ pev.op = "mt_read" /\ ~failed
    /\ pev.refills = 1 /\ pev.cur > 0 /\ pev.ret > 0
    /\ Len(pev.served) = 2
    /\ pev.served = Packed(mt, pev.frame)
    /\ pev.served # mt.monow_data

\* C14: frame alignment across the stages. With a MonowTranscoder on a
\* ReStreamer of the same width, height and bytes_per_pixel, and no call
\* failed: between calls the ReStreamer is at a frame boundary (cursor 0, the
\* handle at start); every refill, the one of MonowTranscoder::new included,
\* reads native_size bytes that are one whole picture of the region from its
\* first byte to its last, and makes the ReStreamer end one frame and go back
\* to start once; a call that does not refill does not touch the ReStreamer.
C14_FrameAlignment ==
    (built /\ cfg.monow /\ ~failed) =>
        /\ mt.native_size = rs.size
        /\ rs.cursor = 0 /\ rs.pos = rs.start
        /\ Len(mt.fb_data) = mt.native_size
        /\ mt.fb_data \in {Image(g, cfg) : g \in ImageIds}
        /\ pev.op = "init" => (pev.ends = 1 /\ pev.wraps = 2)
        /\ (pev.op = "mt_read" /\ pev.refills = 1) =>
              /\ pev.ends = 1 /\ pev.wraps = 1
              /\ pev.syncs = (IF fc.some THEN 1 ELSE 0)
              /\ pev.reads >= 1
        /\ (pev.op = "mt_read" /\ pev.refills = 0) =>
              (pev.ends = 0 /\ pev.wraps = 0 /\ pev.reads = 0)

C14_Witness ==
    /\ built /\ cfg.monow /\ ~failed
    /\ pev.op = "mt_read" /\ pev.refills = 1
    /\ pev.reads > 1 /\ pev.ends = 1
    /\ rs.start = 8 /\ rs.pos = 8
    /\ mt.fb_data = Image(1, cfg) /\ pev.frame = Image(0, cfg)

\* C18 as stated: a MonowTranscoder::read with a non-empty buffer that returns
\* Ok returns at least one byte.
C18_NeverOkZero ==
    (pev.op = "mt_read" /\ ~pev.err /\ pev.req > 0) => pev.ret >= 1

-----------------------------------------------------------------------------
(* XorStream (xor.rs 9-38) *)

\* XorStream::new
XorStream_new(bs) == [last_cache |-> Zeros(bs), last_cache_index |-> 0]

\* XorStep with the diff byte, not the plaintext byte, kept in the ring
XorStep_StoresDiff(xs, b) ==
    LET prev_byte == xs.last_cache[xs.last_cache_index + 1]
    IN  [xs  |-> [last_cache |-> [xs.last_cache EXCEPT
                                    ![xs.last_cache_index + 1] = Xor(b, prev_byte)],
                  last_cache_index |->
                      (xs.last_cache_index + 1) % Len(xs.last_cache)],
         out |-> Xor(b, prev_byte)]

\* XorStep with the ring position never advanced
XorStep_NoAdvance(xs, b) ==
    LET prev_byte == xs.last_cache[xs.last_cache_index + 1]
    IN  [xs  |-> [last_cache |-> [xs.last_cache EXCEPT ![xs.last_cache_index + 1] = b],
                  last_cache_index |-> xs.last_cache_index],
         out |-> Xor(b, prev_byte)]

\* one iteration of the loop of XorStream::read on byte b:
\* the new stream state and the byte left in buf[i]
XorStep(xs, b) ==
    LET prev_byte == xs.last_cache[xs.last_cache_index + 1]
    IN  [xs  |-> [last_cache |-> [xs.last_cache EXCEPT ![xs.last_cache_index + 1] = b],
                  last_cache_index |->
                      (xs.last_cache_index + 1) % Len(xs.last_cache)],
         out |-> Xor(b, prev_byte)]

\* the loop of XorStream::read over the bytes data the inner source put in buf
RECURSIVE XorLoop(_, _, _)
XorLoop(xs, data, out) ==
    IF data = <<>> THEN [xs |-> xs, out |-> out]
    ELSE LET r == XorStep(xs, Head(data))
         IN  XorLoop(r.xs, Tail(data), Append(out, r.out))

-----------------------------------------------------------------------------
(* UnxorStream (xor.rs 44-68) *)

\* UnxorStream::new
UnxorStream_new(bs) == Zeros(bs)

\* UnxorStep with the diff byte, not the decoded byte, pushed on the deque
UnxorStep_PushesDiff(dc, d) ==
    LET b == Xor(Head(dc), d)
    IN  [dc |-> Append(Tail(dc), d), out |-> b]

\* UnxorStep with the deque left as it was
UnxorStep_Stale(dc, d) ==
    LET b == Xor(Head(dc), d)
    IN  [dc |-> dc, out |-> b]

\* one iteration of the loop of UnxorStream::read on diff byte d
UnxorStep(dc, d) ==
    LET b == Xor(Head(dc), d)
    IN  [dc |-> Append(Tail(dc), b), out |-> b]

RECURSIVE UnxorLoop(_, _, _)
UnxorLoop(dc, data, out) ==
    IF data = <<>> THEN [dc |-> dc, out |-> out]
    ELSE LET r == UnxorStep(dc, Head(data))
         IN  UnxorLoop(r.dc, Tail(data), Append(out, r.out))

-----------------------------------------------------------------------------
(* The codec as a state machine: an encoder fed by an arbitrary source, its  *)
(* output carried to a decoder.                                              *)

NextUniform(n) ==
    IF uniform = 0 \/ uniform = n THEN n ELSE -1

CodecInit ==
    /\ block_size \in BlockSizes
    /\ plain = <<>>
    /\ last_cache = XorStream_new(block_size).last_cache
    /\ last_cache_index = XorStream_new(block_size).last_cache_index
    /\ wire = <<>>
    /\ decPos = 0
    /\ diff_cache = UnxorStream_new(block_size)
    /\ decoded = <<>>
    /\ uniform = 0
    /\ cev = [op |-> "new", short |-> FALSE, err |-> FALSE]

\* XorStream::read starting every call at ring position 0
XorStream_read_RestartsRing(n, data) ==
    LET r == XorLoop([last_cache |-> last_cache, last_cache_index |-> 0],
                     data, <<>>)
    IN  /\ Len(plain) + Len(data) <= MaxLen
        /\ plain' = plain \o data
        /\ last_cache' = r.xs.last_cache
        /\ last_cache_index' = r.xs.last_cache_index
        /\ wire' = wire \o r.out
        /\ uniform' = NextUniform(n)
        /\ cev' = [op |-> "xor", short |-> Len(data) < n, err |-> FALSE]
        /\ UNCHANGED <<block_size, decPos, diff_cache, decoded>>

\* XorStream::read(buf) with buf.len() = n, the inner source delivering data
\* (0..n bytes; none at its end of stream)
XorStream_read(n, data) ==
    LET r == XorLoop([last_cache |-> last_cache,
                      last_cache_index |-> last_cache_index], data, <<>>)
    IN  /\ Len(plain) + Len(data) <= MaxLen
        /\ plain' = plain \o data
        /\ last_cache' = r.xs.last_cache
        /\ last_cache_index' = r.xs.last_cache_index
        /\ wire' = wire \o r.out
        /\ uniform' = NextUniform(n)
        /\ cev' = [op |-> "xor", short |-> Len(data) < n, err |-> FALSE]
        /\ UNCHANGED <<block_size, decPos, diff_cache, decoded>>

\* XorStream::read when the inner read fails: the ? returns the error
XorStream_read_err ==
    /\ cev' = [op |-> "xor", short |-> FALSE, err |-> TRUE]
    /\ UNCHANGED <<block_size, plain, last_cache, last_cache_index, wire,
                   decPos, diff_cache, decoded, uniform>>

\* UnxorStream::read as if it used read_exact: a short read is an error
UnxorStream_read_exact(n, k) ==
    LET data == SubSeq(wire, decPos + 1, decPos + k)
        r    == UnxorLoop(diff_cache, data, <<>>)
    IN  /\ k <= Len(wire) - decPos
        /\ decPos' = decPos + k
        /\ diff_cache' = IF k < n THEN diff_cache ELSE r.dc
        /\ decoded' = IF k < n THEN decoded ELSE decoded \o r.out
        /\ uniform' = NextUniform(n)
        /\ cev' = [op |-> "unxor", short |-> k < n, err |-> k < n]
        /\ UNCHANGED <<block_size, plain, last_cache, last_cache_index, wire>>

\* UnxorStream::read(buf) with buf.len() = n, the inner source delivering the
\* next k bytes of the wire (k < n: a short read; k = 0: nothing to deliver)
UnxorStream_read(n, k) ==
    LET data == SubSeq(wire, decPos + 1, decPos + k)
        r    == UnxorLoop(diff_cache, data, <<>>)
    IN  /\ k <= Len(wire) - decPos
        /\ decPos' = decPos + k
        /\ diff_cache' = r.dc
        /\ decoded' = decoded \o r.out
        /\ uniform' = NextUniform(n)
        /\ cev' = [op |-> "unxor", short |-> k < n, err |-> FALSE]
        /\ UNCHANGED <<block_size, plain, last_cache, last_cache_index, wire>>

\* UnxorStream::read when the inner read fails
UnxorStream_read_err ==
    /\ cev' = [op |-> "unxor", short |-> FALSE, err |-> TRUE]
    /\ UNCHANGED <<block_size, plain, last_cache, last_cache_index, wire,
                   decPos, diff_cache, decoded, uniform>>

EncRead ==
    /\ \E n \in BufLens : \E k \in 0..n : \E data \in SeqsOfLen(PlainBytes, k) :
          XorStream_read(n, data)
    /\ UNCHANGED <<capperVars, pipeVars, ux>>

EncReadErr == XorStream_read_err /\ UNCHANGED <<capperVars, pipeVars, ux>>

DecRead ==
    /\ \E n \in BufLens : \E k \in 0..n :
          /\ (k = 0 => decPos = Len(wire))
          /\ UnxorStream_read(n, k)
    /\ UNCHANGED <<capperVars, pipeVars, ux>>

DecReadErr == UnxorStream_read_err /\ UNCHANGED <<capperVars, pipeVars, ux>>

CodecNext == EncRead \/ EncReadErr \/ DecRead \/ DecReadErr

InitCodec == CodecInit /\ CapperIdle /\ PipeIdle /\ UnxorIdle

SpecCodec == InitCodec /\ [][CodecNext]_vars

-----------------------------------------------------------------------------
(* Properties of the codec *)

\* block m (0-based) of a stream: its bytes m*B+1 .. (m+1)*B
Block(str, m) == SubSeq(str, m * block_size + 1, (m + 1) * block_size)
NumBlocks(str) == Len(str) \div block_size

\* C1: round trip. With encoder and decoder built with the same block_size and
\* an all-zero ring, and every read call of both given a buffer of the same
\* size, the decoder has returned exactly the plaintext bytes whose diff bytes
\* it has been given; once it has been given them all, the whole plaintext.
C1_RoundTrip ==
    uniform # -1 =>
        /\ Len(decoded) = decPos
        /\ decoded = SubSeq(plain, 1, decPos)
        /\ (decPos = Len(wire) => decoded = plain)

C1_Witness ==
    /\ uniform = 2
    /\ block_size = 2
    /\ Len(plain) = 3 * block_size
    /\ decoded = plain
    /\ Block(plain, 0) # Block(plain, 1)
    /\ Block(plain, 1) # Block(plain, 2)
    /\ \E i \in 1..Len(wire) : wire[i] # plain[i]

\* C2: zero diff. Whenever two consecutive block-aligned blocks of plaintext
\* are identical, every diff byte emitted for the second one is 0.
C2_ZeroDiff ==
    \A m \in 1..(NumBlocks(plain) - 1) :
        Block(plain, m) = Block(plain, m - 1) =>
            Block(wire, m) = Zeros(block_size)

C2_Witness ==
    /\ block_size = 2
    /\ NumBlocks(plain) = 3
    /\ Block(plain, 2) = Block(plain, 1)
    /\ Block(plain, 1) # Block(plain, 0)
    /\ Block(plain, 2) # Zeros(block_size)
    /\ Block(wire, 2) = Zeros(block_size)
    /\ uniform = -1

RingAfter(str, bs) ==
    [i \in 1..bs |->
        LET js == {j \in 1..Len(str) : (j - 1) % bs = i - 1}
        IN  IF js = {} THEN 0
            ELSE str[CHOOSE j \in js : \A k \in js : k <= j]]

\* ring read from position idx (0-based) with wrap-around
ReadFrom(ring, idx) ==
    [k \in 1..Len(ring) |-> ring[((idx + k - 1) % Len(ring)) + 1]]

\* C15: the rings hold plaintext. The encoder's last_cache holds at each
\* position the last plaintext byte that passed at that position (0 if none),
\* never a diff byte, and last_cache_index is the number of bytes passed
\* modulo block_size; the decoder's deque, from its front, is the ring of the
\* bytes it has decoded read from their count modulo block_size, so that once
\* it has decoded every byte encoded it is the encoder's ring read from
\* last_cache_index.
C15_RingHoldsPlaintext ==
    /\ last_cache = RingAfter(plain, block_size)
    /\ last_cache_index = Len(plain) % block_size
    /\ diff_cache = ReadFrom(RingAfter(SubSeq(plain, 1, decPos), block_size),
                             decPos % block_size)
    /\ decPos = Len(plain) => diff_cache = ReadFrom(last_cache, last_cache_index)

C15_Witness ==
    /\ block_size = 3 /\ Len(plain) = 5 /\ decPos = 5
    /\ last_cache_index = 2
    /\ last_cache = <<plain[4], plain[5], plain[3]>>
    /\ plain[4] # plain[1] /\ plain[5] # plain[2]
    /\ wire[4] # plain[4]
    /\ diff_cache = <<plain[3], plain[4], plain[5]>>
    /\ diff_cache # last_cache

\* the whole stream str through XorStream in one pass
Encode(str, bs) == XorLoop(XorStream_new(bs), str, <<>>).out

\* the whole stream str through UnxorStream in one pass
Decode(str, bs) == UnxorLoop(UnxorStream_new(bs), str, <<>>).out

\* C17: chunking independence. However the stream was split into read
\* calls (buffers of different sizes, short reads, reads that are not
\* multiples of block_size), what XorStream has returned is the encoding of
\* the plaintext in one pass, and what UnxorStream has returned is the decoding
\* in one pass of what it was given: the plaintext up to there.
C17_ChunkingIndependent ==
    /\ wire = Encode(plain, block_size)
    /\ decoded = Decode(SubSeq(wire, 1, decPos), block_size)
    /\ decoded = SubSeq(plain, 1, decPos)

C17_Witness ==
    /\ uniform = -1 /\ cev.op = "unxor" /\ cev.short
    /\ block_size = 2 /\ Len(plain) = 5 /\ decPos = 5
    /\ decoded = plain
    /\ wire # plain
    /\ plain[5] # 0

-----------------------------------------------------------------------------
(* The codec on a channel that alters one byte between XorStream and         *)
(* UnxorStream.                                                              *)

\* the values an altered byte takes
CorruptBytes == {90}

\* the channel alters one diff byte UnxorStream has not been given yet; it
\* does so once
Corrupt ==
    /\ wire = Encode(plain, block_size)
    /\ \E i \in (decPos + 1)..Len(wire), v \in CorruptBytes :
          /\ v # wire[i]
          /\ wire' = [wire EXCEPT ![i] = v]
    /\ UNCHANGED <<block_size, plain, last_cache, last_cache_index, decPos,
                   diff_cache, decoded, uniform, cev, capperVars, pipeVars, ux>>

\* XorStream::read, the inner source filling the buffer
CorruptEnc ==
    /\ \E n \in BufLens : \E data \in SeqsOfLen(PlainBytes, n) :
          XorStream_read(n, data)
    /\ UNCHANGED <<capperVars, pipeVars, ux>>

\* UnxorStream::read, the channel delivering what it holds, up to the buffer
CorruptDec ==
    /\ decPos < Len(wire)
    /\ \E n \in BufLens : UnxorStream_read(n, Min(n, Len(wire) - decPos))
    /\ UNCHANGED <<capperVars, pipeVars, ux>>

CorruptNext == CorruptEnc \/ CorruptDec \/ Corrupt

SpecCorrupt == InitCodec /\ [][CorruptNext]_vars

\* the positions at which the wire is not what XorStream emitted
Altered == {i \in 1..Len(wire) : wire[i] # Encode(plain, block_size)[i]}

\* C16 as stated: with one diff byte altered, every decoded byte more than
\* block_size positions after it equals the plaintext again.
C16_Resynchronises ==
    \A p \in Altered :
        \A j \in 1..Len(decoded) : j > p + block_size => decoded[j] = plain[j]

\* C16 as amended: with one diff byte altered, at position p, the decoded
\* stream differs from the plaintext at p and at every later position p + k *
\* block_size, each time by the XOR difference of the altered byte, and
\* nowhere else: the decoder never resynchronises.
C16_CorruptionPersists ==
    \A p \in Altered :
        LET delta == Xor(wire[p], Encode(plain, block_size)[p])
        IN  /\ Altered = {p}
            /\ Len(decoded) = decPos
            /\ \A j \in 1..Len(decoded) :
                  decoded[j] = IF j >= p /\ (j - p) % block_size = 0
                               THEN Xor(plain[j], delta)
                               ELSE plain[j]

C16_Witness ==
    /\ Altered = {1} /\ block_size = 2 /\ Len(decoded) = 6
    /\ decoded[1] # plain[1] /\ decoded[3] # plain[3] /\ decoded[5] # plain[5]
    /\ decoded[2] = plain[2] /\ decoded[4] = plain[4] /\ decoded[6] = plain[6]

-----------------------------------------------------------------------------
(* The unxor utility (bin/unxor.rs): main reads stdin through an UnxorStream *)
(* and writes what it got to stdout, in a loop.                              *)

\* buf.len() in main
MainBuf == 3

\* the lengths of the streams piped into stdin
StdinLens == {0, 1, 4}

UnxorInit ==
    /\ block_size \in BlockSizes
    /\ \E l \in StdinLens : plain \in SeqsOfLen(PlainBytes, l)
    /\ wire = Encode(plain, block_size)
    /\ last_cache = XorStream_new(block_size).last_cache
    /\ last_cache_index = XorStream_new(block_size).last_cache_index
    /\ decPos = 0
    /\ diff_cache = UnxorStream_new(block_size)
    /\ decoded = <<>>
    /\ uniform = 0
    /\ cev = [op |-> "new", short |-> FALSE, err |-> FALSE]
    /\ ux = [pc |-> "read", bytes |-> <<>>, out |-> <<>>, eof |-> FALSE]

\* let bytes = stdin_wrapper.read(&mut buf)?; stdin delivers k bytes, none
\* only at its end
MainRead ==
    /\ ux.pc = "read"
    /\ \E k \in 0..Min(MainBuf, Len(wire) - decPos) :
          /\ (k = 0) <=> (decPos = Len(wire))
          /\ UnxorStream_read(MainBuf, k)
          /\ ux' = [ux EXCEPT !.pc = "write",
                              !.bytes = SubSeq(decoded', Len(decoded) + 1, Len(decoded')),
                              !.eof = @ \/ (k = 0)]
    /\ UNCHANGED <<capperVars, pipeVars>>

\* the read fails: the ? returns from main
MainReadErr ==
    /\ ux.pc = "read"
    /\ UnxorStream_read_err
    /\ ux' = [ux EXCEPT !.pc = "exit"]
    /\ UNCHANGED <<capperVars, pipeVars>>

\* stdout.write(&buf[0..bytes])?; stdout accepts a of the bytes offered; the
\* Ok(a) is dropped
MainWrite ==
    /\ ux.pc = "write"
    /\ \E a \in 0..Len(ux.bytes) :
          /\ (a = 0) => (ux.bytes = <<>>)
          /\ ux' = [ux EXCEPT !.pc = "read", !.bytes = <<>>,
                              !.out = @ \o SubSeq(ux.bytes, 1, a)]
    /\ UNCHANGED <<codecVars, capperVars, pipeVars>>

\* the write fails: the ? returns from main
MainWriteErr ==
    /\ ux.pc = "write"
    /\ ux' = [ux EXCEPT !.pc = "exit", !.bytes = <<>>]
    /\ UNCHANGED <<codecVars, capperVars, pipeVars>>

UnxorNext == MainRead \/ MainReadErr \/ MainWrite \/ MainWriteErr

InitUnxor == UnxorInit /\ CapperIdle /\ PipeIdle

\* main keeps running: a statement it has reached is executed
SpecUnxor ==
    InitUnxor /\ [][UnxorNext]_vars /\ WF_vars(MainRead) /\ WF_vars(MainWrite)

\* C19 as stated: whenever main is back at the read, the bytes stdout has
\* accepted are all the bytes decoded so far, in order.
C19_EveryByteWritten ==
    ux.pc = "read" => ux.out = decoded

\* C20 as stated: once stdin has reported its end, main eventually leaves the
\* loop.
C20_StopsAtEof ==
    ux.eof ~> (ux.pc = "exit")

=============================================================================
